---- MODULE Spec2Model ----
(***************************************************************************)
(* A model of the Cube source (src/magnet/_cube.py) and of the Collection  *)
(* of sources (src/magpylib/_lib/classes/collection.py).                   *)
(*                                                                         *)
(* Objects live in a heap `src` (object id -> fields); a Collection holds  *)
(* a list `sources` of object ids, i.e. references.  Every method is an    *)
(* operator from the receiver (and the heap, where it reaches other        *)
(* objects) and the arguments to the receiver after the call and the       *)
(* returned value.                                                         *)
(*                                                                         *)
(* Coordinates are exact integers; rotations are restricted to the angles  *)
(* and axes for which the Rodrigues formula maps integer vectors to        *)
(* integer vectors (the rotation group of the cube), so that every         *)
(* comparison below is an exact one.                                       *)
(*                                                                         *)
(* The base class HomoMag, angleAxisRotation and Bfield_Cube are imported  *)
(* by the sources but their bodies are not part of them; they are          *)
(* modelled from the design document (sections 4.1 - 4.3).                 *)
(***************************************************************************)
EXTENDS Integers, Sequences, FiniteSets, TLC

VARIABLES
    src,      \* heap: object id -> the fields of the Cube with that id
    sources,  \* Collection.sources: the list of references (object ids)
    args,     \* history: constructor arguments, then addSource arguments
    call,     \* history: the most recent call, its arguments and its result
    exited,   \* TRUE once sys.exit has been called
    steps     \* number of calls made so far

vars == <<src, sources, args, call, exited, steps>>

----------------------------------------------------------------------------
(* Bounds of the model.                                                    *)

\* calls per run
MaxSteps == 2

\* longest Collection.sources considered
MaxLen == 3

\* the object ids of the Cubes
Ids == {1, 2}

----------------------------------------------------------------------------
(* 3-vectors (numpy arrays of shape (3,) with exact components).           *)

Zero3 == <<0, 0, 0>>

VAdd(a, b) == <<a[1] + b[1], a[2] + b[2], a[3] + b[3]>>

VSub(a, b) == <<a[1] - b[1], a[2] - b[2], a[3] - b[3]>>

VNeg(a) == <<-a[1], -a[2], -a[3]>>

VScale(k, a) == <<k * a[1], k * a[2], k * a[3]>>

\* division of every component by k > 0 (the supported rotations divide exactly)
VDiv(a, k) == <<a[1] \div k, a[2] \div k, a[3] \div k>>

Dot(a, b) == a[1] * b[1] + a[2] * b[2] + a[3] * b[3]

Cross(a, b) == <<a[2] * b[3] - a[3] * b[2],
                 a[3] * b[1] - a[1] * b[3],
                 a[1] * b[2] - a[2] * b[1]>>

Basis(j) == [i \in 1..3 |-> IF i = j THEN 1 ELSE 0]

----------------------------------------------------------------------------
(* Python / numpy values returned by getB: an ndarray of shape (3,) or the *)
(* Python int that sum() starts from (shape ()).                           *)

NdArray(v) == [shape |-> <<Len(v)>>, data |-> v]

PyInt(n) == [shape |-> <<>>, data |-> <<n>>]

\* None, returned by the methods that only mutate
PyNone == [shape |-> <<>>, data |-> <<>>]

\* x + y with numpy broadcasting of a scalar operand
PyAdd(x, y) ==
    IF x.shape = <<>> /\ y.shape = <<>>
    THEN PyInt(x.data[1] + y.data[1])
    ELSE IF x.shape = <<>>
    THEN [shape |-> y.shape,
          data |-> [i \in 1..Len(y.data) |-> x.data[1] + y.data[i]]]
    ELSE IF y.shape = <<>>
    THEN [shape |-> x.shape,
          data |-> [i \in 1..Len(x.data) |-> x.data[i] + y.data[1]]]
    ELSE [shape |-> x.shape,
          data |-> [i \in 1..Len(x.data) |-> x.data[i] + y.data[i]]]

RECURSIVE PySumFrom(_, _)
PySumFrom(acc, list) ==
    IF list = <<>> THEN acc
    ELSE PySumFrom(PyAdd(acc, Head(list)), Tail(list))

\* the builtin sum(list): start value 0, then + over the items in order
PySum(list) == PySumFrom(PyInt(0), list)

----------------------------------------------------------------------------
(* numpy's nan.  A component of an input vector is an integer or NaN.      *)

NaN == -999

isnan(x) == x = NaN

\* any(isnan(v)) for a sequence v
AnyNaN(v) == \E i \in 1..Len(v) : isnan(v[i])

----------------------------------------------------------------------------
(* Rotation primitive (design 4.1):   rotation of v about axis by angle     *)
(* degrees, by the Rodrigues formula                                       *)
(*    v cos(t) + (k x v) sin(t) + k (k . v) (1 - cos(t)),  k = axis/|axis| *)
(* evaluated exactly.  With n2 = |axis|^2 the supported cases are          *)
(*    t = 90, 270 with |axis| an integer L (cos = 0, sin = +-1),           *)
(*    t = 180                            (cos = -1, sin = 0),              *)
(*    t = 120, 240 with n2 = 3 m^2       (cos = -1/2, sin = +-sqrt(3)/2).  *)
(* angle = 0 is the identity for every axis, the zero axis included.       *)

ISqrt(n) == CHOOSE l \in 0..n : l * l = n

IsSquare(n) == \E l \in 0..n : l * l = n

angleAxisRotation(angle, axis, v) ==
    LET t  == angle % 360
        n2 == Dot(axis, axis)
        kv == Cross(axis, v)
        kk == VScale(Dot(axis, v), axis)
    IN  IF t = 0 THEN v
        ELSE IF t = 90 /\ n2 > 0 /\ IsSquare(n2)
        THEN VDiv(VAdd(VScale(ISqrt(n2), kv), kk), n2)
        ELSE IF t = 270 /\ n2 > 0 /\ IsSquare(n2)
        THEN VDiv(VAdd(VScale(-ISqrt(n2), kv), kk), n2)
        ELSE IF t = 180 /\ n2 > 0
        THEN VDiv(VAdd(VScale(-n2, v), VScale(2, kk)), n2)
        ELSE IF t = 120 /\ n2 > 0 /\ n2 % 3 = 0 /\ IsSquare(n2 \div 3)
        THEN LET m == ISqrt(n2 \div 3)
             IN  VDiv(VAdd(VAdd(VScale(-(m * m), v), VScale(m, kv)), kk),
                      2 * m * m)
        ELSE IF t = 240 /\ n2 > 0 /\ n2 % 3 = 0 /\ IsSquare(n2 \div 3)
        THEN LET m == ISqrt(n2 \div 3)
             IN  VDiv(VAdd(VAdd(VScale(-(m * m), v), VScale(-m, kv)), kk),
                      2 * m * m)
        ELSE v   \* outside the exact domain: never evaluated by the model

\* the rotation (angB, axB) after (angA, axA), as the images of the basis
RotProduct(angB, axB, angA, axA) ==
    [j \in 1..3 |->
        angleAxisRotation(angB, axB, angleAxisRotation(angA, axA, Basis(j)))]

\* angle and axis of a rotation given by the images c of the basis vectors:
\* the trace is 1 + 2 cos(t), the antisymmetric part is 2 sin(t) k, and for
\* t = 180 a non-zero column of M + I is parallel to k.  The identity has
\* the default axis (0,0,1); the axis of a 120 degree turn is left as
\* (+-1,+-1,+-1), of a 180 degree turn about a face diagonal as (1,1,0) etc.
AngAxis(c) ==
    LET trace == c[1][1] + c[2][2] + c[3][3]
        anti  == <<c[2][3] - c[3][2], c[3][1] - c[1][3], c[1][2] - c[2][1]>>
        sym   == [j \in 1..3 |-> VAdd(c[j], Basis(j))]
        col   == sym[CHOOSE j \in 1..3 :
                        /\ sym[j] # Zero3
                        /\ \A i \in 1..(j - 1) : sym[i] = Zero3]
    IN  IF trace = 3 THEN [angle |-> 0, axis |-> <<0, 0, 1>>]
        ELSE IF trace = 1 THEN [angle |-> 90, axis |-> VDiv(anti, 2)]
        ELSE IF trace = 0 THEN [angle |-> 120, axis |-> anti]
        ELSE [angle |-> 180,
              axis |-> IF Dot(col, col) = 4 THEN VDiv(col, 2) ELSE col]

----------------------------------------------------------------------------
(* Canonical-frame field of the cuboid (design 4.3):   a pure function of   *)
(* the magnetization, the observation point in the magnet's frame and the  *)
(* dimension.  The closed form (logarithms and arctangents) has no exact   *)
(* integer image; it is represented by an integer function that is         *)
(* injective in the point (the matrix of the point's coefficients has      *)
(* determinant 28) and depends on every component of mag and dim.          *)

Bfield_Cube(mag, p, dim) ==
    <<mag[1] * dim[1] + p[1] + 3 * p[2],
      mag[2] * dim[2] + p[2] + 3 * p[3],
      mag[3] * dim[3] + p[3] + 3 * p[1]>>

----------------------------------------------------------------------------
(* The base class HomoMag (design 3, 4.2, 7):   pose and magnetization.     *)

\* an object that was never constructed
NoObject == [made |-> FALSE, position |-> Zero3, angle |-> 0,
             axis |-> Zero3, magnetization |-> Zero3, dimension |-> Zero3]

\* the anchor argument: a vector, or the string default 'self.position'
AnchorAt(a) == [isStr |-> FALSE, str |-> "", vec |-> a]

AnchorDefault == [isStr |-> TRUE, str |-> "self.position", vec |-> Zero3]

\* HomoMag.__init__ accepts pos, axis and mag of arity 3 without NaN
HomoMag_init_ok(pos, angle, axis, mag) ==
    /\ Len(pos) = 3 /\ ~AnyNaN(pos)
    /\ Len(axis) = 3 /\ ~AnyNaN(axis)
    /\ Len(mag) = 3 /\ ~AnyNaN(mag)

\* move(displacement): position += displacement
HomoMag_move(self, displacement) ==
    [self |-> [self EXCEPT !.position = VAdd(self.position, displacement)],
     ret  |-> PyNone]

\* rotate(angle, axis, anchor): the anchor defaults to the position the
\* object has when the call is made; the orientation becomes the product of
\* the incoming rotation and the current one; the position is rotated about
\* the anchor.
HomoMag_rotate(self, angle, axis, anchor) ==
    LET a  == IF anchor.isStr /\ anchor.str = "self.position"
              THEN self.position ELSE anchor.vec
        o  == AngAxis(RotProduct(angle, axis, self.angle, self.axis))
        p  == VAdd(angleAxisRotation(angle, axis, VSub(self.position, a)), a)
    IN  [self |-> [self EXCEPT !.position = p,
                               !.angle = o.angle,
                               !.axis = o.axis],
         ret  |-> PyNone]

----------------------------------------------------------------------------
(* class Cube (src/magnet/_cube.py).                                       *)

\* Cube.__init__, lines 100-102: sys.exit unless dim has three components
\* and none of them is NaN
Cube_dim_ok(dim) == ~(AnyNaN(dim) \/ Len(dim) # 3)

\* Cube.__init__: the constructed object; sys.exit when ok is FALSE
Cube_init(mag, dim, pos, angle, axis) ==
    IF HomoMag_init_ok(pos, angle, axis, mag) /\ Cube_dim_ok(dim)
    THEN [ok |-> TRUE,
          self |-> [made |-> TRUE, position |-> pos, angle |-> angle,
                    axis |-> axis, magnetization |-> mag, dimension |-> dim]]
    ELSE [ok |-> FALSE, self |-> NoObject]

\* Cube.getB with the relative position taken from the magnet to the
\* observation point the wrong way round
Cube_getB_flipped(self, pos) ==
    LET posRel   == VSub(self.position, pos)
        p21newCm == angleAxisRotation(self.angle, VNeg(self.axis), posRel)
        BCm      == Bfield_Cube(self.magnetization, p21newCm, self.dimension)
    IN  [self |-> self,
         ret  |-> NdArray(angleAxisRotation(self.angle, self.axis, BCm))]

\* Cube.getB that forgets to subtract the magnet's position
Cube_getB_unshifted(self, pos) ==
    LET p21newCm == angleAxisRotation(self.angle, VNeg(self.axis), pos)
        BCm      == Bfield_Cube(self.magnetization, p21newCm, self.dimension)
    IN  [self |-> self,
         ret  |-> NdArray(angleAxisRotation(self.angle, self.axis, BCm))]

\* Cube.getB that computes the relative position in place, in self.position
Cube_getB_inplace(self, pos) ==
    LET posRel   == VSub(pos, self.position)
        p21newCm == angleAxisRotation(self.angle, VNeg(self.axis), posRel)
        BCm      == Bfield_Cube(self.magnetization, p21newCm, self.dimension)
    IN  [self |-> [self EXCEPT !.position = posRel],
         ret  |-> NdArray(angleAxisRotation(self.angle, self.axis, BCm))]

\* Cube.getB(pos): the object after the call and the returned field
Cube_getB(self, pos) ==
    LET p1       == pos
        posRel   == VSub(p1, self.position)
        p21newCm == angleAxisRotation(self.angle, VNeg(self.axis), posRel)
        BCm      == Bfield_Cube(self.magnetization, p21newCm, self.dimension)
        B        == angleAxisRotation(self.angle, self.axis, BCm)
    IN  [self |-> self, ret |-> NdArray(B)]

----------------------------------------------------------------------------
(* class Collection (src/magpylib/_lib/classes/collection.py).  The heap   *)
(* objs is threaded through every loop over self.sources, so that a source *)
(* listed twice is visited twice, each time in the state the previous      *)
(* visit left it in.                                                       *)

\* Collection.__init__(*sources): self.sources = [], then += [s] for each
RECURSIVE Collection_init_from(_, _)
Collection_init_from(list, rest) ==
    IF rest = <<>> THEN list
    ELSE Collection_init_from(list \o <<Head(rest)>>, Tail(rest))

Collection_init(sourcesArg) == Collection_init_from(<<>>, sourcesArg)

\* addSource that skips a source the list already holds
Collection_addSource_unique(srcList, source) ==
    IF \E k \in 1..Len(srcList) : srcList[k] = source
    THEN srcList ELSE srcList \o <<source>>

\* Collection.addSource(source): self.sources += [source]
Collection_addSource(srcList, source) == srcList \o <<source>>

\* [s.getB(pos) for s in self.sources]
RECURSIVE GetBEach(_, _, _, _)
GetBEach(objs, todo, pos, done) ==
    IF todo = <<>> THEN [src |-> objs, list |-> done]
    ELSE LET s == Head(todo)
             r == Cube_getB(objs[s], pos)
         IN  GetBEach([objs EXCEPT ![s] = r.self], Tail(todo), pos,
                      Append(done, r.ret))

\* Collection.getB(pos): sum of the members' fields
Collection_getB(objs, srcList, pos) ==
    LET each == GetBEach(objs, srcList, pos, <<>>)
    IN  [src |-> each.src, sources |-> srcList, ret |-> PySum(each.list)]

\* Collection.move(displacement): for s in self.sources: s.move(displacement)
RECURSIVE MoveEach(_, _, _)
MoveEach(objs, todo, displacement) ==
    IF todo = <<>> THEN objs
    ELSE LET s == Head(todo)
         IN  MoveEach([objs EXCEPT ![s] = HomoMag_move(objs[s], displacement).self],
                      Tail(todo), displacement)

Collection_move(objs, srcList, displacement) ==
    [src |-> MoveEach(objs, srcList, displacement),
     sources |-> srcList, ret |-> PyNone]

\* Collection.rotate(angle, axis, anchor='self.position'):
\* for s in self.sources: s.rotate(angle, axis, anchor=anchor)
RECURSIVE RotateEach(_, _, _, _, _)
RotateEach(objs, todo, angle, axis, anchor) ==
    IF todo = <<>> THEN objs
    ELSE LET s == Head(todo)
         IN  RotateEach([objs EXCEPT ![s] =
                             HomoMag_rotate(objs[s], angle, axis, anchor).self],
                        Tail(todo), angle, axis, anchor)

\* rotate that resolves an omitted anchor once, to the first member's position
Collection_rotate_shared(objs, srcList, angle, axis, anchor) ==
    LET a == IF anchor.isStr /\ srcList # <<>>
             THEN AnchorAt(objs[Head(srcList)].position) ELSE anchor
    IN  [src |-> RotateEach(objs, srcList, angle, axis, a),
         sources |-> srcList, ret |-> PyNone]

Collection_rotate(objs, srcList, angle, axis, anchor) ==
    [src |-> RotateEach(objs, srcList, angle, axis, anchor),
     sources |-> srcList, ret |-> PyNone]

----------------------------------------------------------------------------
(* Inputs.                                                                 *)

\* displacements
Disp == {<<1, 0, 0>>, <<0, -1, 2>>}

\* observation points
Points == {<<1, 0, 1>>, <<0, 2, 0>>}

\* rotations asked for by a caller (the second axis is not normalised)
RotArgs == {[angle |-> 90, axis |-> <<0, 1, 0>>],
            [angle |-> 90, axis |-> <<0, 0, 2>>]}

\* anchors: omitted, or explicit
Anchors == {AnchorDefault, AnchorAt(<<1, 0, 0>>)}

\* constructor inputs of a Cube
MagInputs == {<<0, 0, 1>>, <<1, -2, 0>>, <<NaN, 0, 1>>}

DimInputs == {<<1, 1, 1>>, <<2, 1, 3>>, <<0, 1, 1>>, <<1, -1, 1>>,
              <<1, NaN, 1>>, <<1, 1>>, <<1, 1, 1, 1>>}

PosInputs == {Zero3, <<1, 0, -1>>}

PoseInputs == {[angle |-> 0, axis |-> <<0, 0, 1>>],
               [angle |-> 0, axis |-> <<0, 0, 0>>],
               [angle |-> 0, axis |-> <<1, 2, 3>>],
               [angle |-> 90, axis |-> <<0, 1, 0>>],
               [angle |-> 120, axis |-> <<1, 1, 1>>]}

\* sequences over S of length at most n
SeqUpTo(S, n) == UNION {[1..k -> S] : k \in 0..n}

----------------------------------------------------------------------------
(* The calls.                                                              *)

NoCall == [op |-> "none", who |-> 0, vec |-> Zero3, angle |-> 0,
           axis |-> Zero3, anchor |-> AnchorDefault, ret |-> PyNone]

Running == ~exited /\ steps < MaxSteps

\* c = Cube(mag, dim, pos, angle, axis), bound to object id i
CubeNew(i, mag, dim, pos, angle, axis) ==
    LET r == Cube_init(mag, dim, pos, angle, axis)
    IN  /\ Running
        /\ ~src[i].made
        /\ src' = [src EXCEPT ![i] = r.self]
        /\ exited' = ~r.ok
        /\ call' = [NoCall EXCEPT !.op = "Cube", !.who = i]
        /\ steps' = steps + 1
        /\ UNCHANGED <<sources, args>>

\* c.getB(p) on the Cube with id i
CubeGetB(i, p) ==
    LET r == Cube_getB(src[i], p)
    IN  /\ Running
        /\ src[i].made
        /\ src' = [src EXCEPT ![i] = r.self]
        /\ call' = [NoCall EXCEPT !.op = "Cube.getB", !.who = i, !.vec = p,
                                  !.ret = r.ret]
        /\ steps' = steps + 1
        /\ UNCHANGED <<sources, args, exited>>

\* c.move(d) on the Cube with id i
SrcMove(i, d) ==
    LET r == HomoMag_move(src[i], d)
    IN  /\ Running
        /\ src[i].made
        /\ src' = [src EXCEPT ![i] = r.self]
        /\ call' = [NoCall EXCEPT !.op = "move", !.who = i, !.vec = d]
        /\ steps' = steps + 1
        /\ UNCHANGED <<sources, args, exited>>

\* c.rotate(angle, axis, anchor) on the Cube with id i
SrcRotate(i, angle, axis, anchor) ==
    LET r == HomoMag_rotate(src[i], angle, axis, anchor)
    IN  /\ Running
        /\ src[i].made
        /\ src' = [src EXCEPT ![i] = r.self]
        /\ call' = [NoCall EXCEPT !.op = "rotate", !.who = i,
                                  !.angle = angle, !.axis = axis,
                                  !.anchor = anchor]
        /\ steps' = steps + 1
        /\ UNCHANGED <<sources, args, exited>>

\* col.addSource(c) with the Cube with id i
AddSource(i) ==
    /\ Running
    /\ src[i].made
    /\ Len(sources) < MaxLen
    /\ sources' = Collection_addSource(sources, i)
    /\ args' = Append(args, i)
    /\ call' = [NoCall EXCEPT !.op = "Collection.addSource", !.who = i]
    /\ steps' = steps + 1
    /\ UNCHANGED <<src, exited>>

\* col.getB(p)
ColGetB(p) ==
    LET r == Collection_getB(src, sources, p)
    IN  /\ Running
        /\ src' = r.src
        /\ sources' = r.sources
        /\ call' = [NoCall EXCEPT !.op = "Collection.getB", !.vec = p,
                                  !.ret = r.ret]
        /\ steps' = steps + 1
        /\ UNCHANGED <<args, exited>>

\* col.move(d)
ColMove(d) ==
    LET r == Collection_move(src, sources, d)
    IN  /\ Running
        /\ src' = r.src
        /\ sources' = r.sources
        /\ call' = [NoCall EXCEPT !.op = "Collection.move", !.vec = d]
        /\ steps' = steps + 1
        /\ UNCHANGED <<args, exited>>

\* col.rotate(angle, axis) or col.rotate(angle, axis, anchor=a)
ColRotate(angle, axis, anchor) ==
    LET r == Collection_rotate(src, sources, angle, axis, anchor)
    IN  /\ Running
        /\ src' = r.src
        /\ sources' = r.sources
        /\ call' = [NoCall EXCEPT !.op = "Collection.rotate",
                                  !.angle = angle, !.axis = axis,
                                  !.anchor = anchor]
        /\ steps' = steps + 1
        /\ UNCHANGED <<args, exited>>

----------------------------------------------------------------------------
(* Specification Spec: two Cubes, each built with the documented default   *)
(* pose or with pos, angle and axis given, and a Collection built from any *)
(* list of them.                                                           *)

\* the pose keyword arguments of the Cube constructor used by Init
PoseKwargs == {[pos |-> Zero3, angle |-> 0, axis |-> <<0, 0, 1>>],
               [pos |-> <<2, 0, 0>>, angle |-> 90, axis |-> <<0, 1, 0>>]}

InitCube(i, k) ==
    Cube_init(<<0, 0, 1000 * i>>, <<i, 1, 1>>, k.pos, k.angle, k.axis).self

Init ==
    /\ src \in [Ids -> {InitCube(1, k) : k \in PoseKwargs}
                        \cup {InitCube(2, k) : k \in PoseKwargs}]
    /\ \A i \in Ids : \E k \in PoseKwargs : src[i] = InitCube(i, k)
    /\ \E a \in SeqUpTo(Ids, 2) :
          /\ args = a
          /\ sources = Collection_init(a)
    /\ call = NoCall
    /\ exited = FALSE
    /\ steps = 0

Next ==
    \/ \E i \in Ids : AddSource(i)
    \/ \E p \in Points : ColGetB(p)
    \/ \E d \in Disp : ColMove(d)
    \/ \E r \in RotArgs, a \in Anchors : ColRotate(r.angle, r.axis, a)
    \/ \E i \in Ids, p \in Points : CubeGetB(i, p)
    \/ \E i \in Ids, d \in Disp : SrcMove(i, d)
    \/ \E i \in Ids, r \in RotArgs, a \in Anchors :
          SrcRotate(i, r.angle, r.axis, a)

Spec == Init /\ [][Next]_vars

----------------------------------------------------------------------------
(* Specification SpecCube: the life of one Cube, from the constructor call *)
(* with any of the inputs above.                                           *)

InitCubeSpec ==
    /\ src = [i \in Ids |-> NoObject]
    /\ sources = <<>>
    /\ args = <<>>
    /\ call = NoCall
    /\ exited = FALSE
    /\ steps = 0

NextCube ==
    \/ \E m \in MagInputs, dm \in DimInputs, p \in PosInputs, o \in PoseInputs :
          CubeNew(1, m, dm, p, o.angle, o.axis)
    \/ \E p \in Points : CubeGetB(1, p)
    \/ \E d \in Disp : SrcMove(1, d)
    \/ \E r \in RotArgs, a \in Anchors : SrcRotate(1, r.angle, r.axis, a)

SpecCube == InitCubeSpec /\ [][NextCube]_vars

----------------------------------------------------------------------------
(* The claims.                                                             *)

\* a call was made in this step
Called == steps' = steps + 1

\* the members of the collection, as a set of object ids
Members == {sources[k] : k \in 1..Len(sources)}

\* element-wise sum of the members' fields at p, one term per list entry
RECURSIVE FieldSum(_, _, _)
FieldSum(objs, list, p) ==
    IF list = <<>> THEN Zero3
    ELSE VAdd(Cube_getB(objs[Head(list)], p).ret.data,
              FieldSum(objs, Tail(list), p))

\* C1: Collection.getB(p) is the element-wise sum of s.getB(p) over the
\* current member list with the members' current poses, a source listed k
\* times counted k times; the sum over no members is the zero vector.
C1_GetBIsSuperposition ==
    call.op = "Collection.getB"
        => call.ret = NdArray(FieldSum(src, sources, call.vec))

\* C2: getB of a Collection constructed with no sources and never added to
\* returns the zero vector of three components.
C2_EmptyGetBIsZeroVector ==
    (call.op = "Collection.getB" /\ args = <<>>)
        => call.ret = NdArray(Zero3)

\* C3: Collection.move(d) moves every member by exactly d and leaves every
\* member's angle and axis alone, duplicates in the list allowed.
C3_MoveIsRigid ==
    [][(Called /\ call'.op = "Collection.move")
        => \A m \in Members :
              /\ src'[m].position = VAdd(src[m].position, call'.vec)
              /\ src'[m].angle = src[m].angle
              /\ src'[m].axis = src[m].axis]_vars

\* C4: Collection.rotate(angle, axis, anchor=a) leaves every member where
\* one member rotate with that angle, axis and anchor takes it: position
\* a + rotate(angle, axis, position - a), orientation composed with
\* (angle, axis).
C4_RotateAboutAnchor ==
    [][(Called /\ call'.op = "Collection.rotate" /\ ~call'.anchor.isStr)
        => \A m \in Members :
              LET a == call'.anchor.vec
                  o == AngAxis(RotProduct(call'.angle, call'.axis,
                                          src[m].angle, src[m].axis))
              IN  /\ src'[m].position =
                        VAdd(a, angleAxisRotation(call'.angle, call'.axis,
                                                  VSub(src[m].position, a)))
                  /\ src'[m].angle = o.angle
                  /\ src'[m].axis = o.axis]_vars

C6_IdentityPose ==
    (/\ call.op = "Cube.getB"
     /\ src[call.who].angle = 0
     /\ src[call.who].position = Zero3)
        => call.ret = NdArray(Bfield_Cube(src[call.who].magnetization,
                                          call.vec,
                                          src[call.who].dimension))

\* C6 witness: getB was called on a Cube at the origin with angle 0 and an
\* axis other than the default one.
C6_Witness ==
    /\ call.op = "Cube.getB"
    /\ src[call.who].angle = 0
    /\ src[call.who].position = Zero3
    /\ src[call.who].axis # <<0, 0, 1>>
    /\ call.ret.data # Zero3

\* C7: after move(d), getB(p + d) returns what getB(p) returned before the
\* move.
C7_TranslationCommutes ==
    [][(Called /\ call'.op = "move")
        => \A p \in Points :
              Cube_getB(src'[call'.who], VAdd(p, call'.vec)).ret
                  = Cube_getB(src[call'.who], p).ret]_vars

\* C7 witness: a Cube that is rotated and away from the origin was moved.
C7_Witness ==
    /\ call.op = "move"
    /\ src[call.who].angle # 0
    /\ src[call.who].position # call.vec

\* C8: no Cube is obtained whose dim has an arity other than 3, a NaN
\* component or a side length that is not positive.
C8_BadDimNeverConstructed ==
    \A i \in Ids :
        src[i].made
            => /\ Len(src[i].dimension) = 3
               /\ ~AnyNaN(src[i].dimension)
               /\ \A k \in 1..Len(src[i].dimension) : src[i].dimension[k] > 0

\* C9: the member list is the constructor arguments in order followed by
\* the addSource arguments in call order, duplicates kept; args changes
\* only with addSource, so move, rotate and getB leave the list alone.
C9_SourcesAreTheArguments == sources = args

\* C9 witness: a source already listed was added again, and the collection
\* was then moved, rotated or queried.
C9_Witness ==
    /\ call.op \in {"Collection.move", "Collection.rotate", "Collection.getB"}
    /\ Len(sources) = 3
    /\ sources[3] \in {sources[1], sources[2]}

\* C10: a getB call on a Cube or on the Collection changes no field of any
\* source and not the member list, and a getB call that directly follows
\* the same call returns the same value.
C10_GetBIsPureRead ==
    [][(Called /\ call'.op \in {"Cube.getB", "Collection.getB"})
        => /\ src' = src
           /\ sources' = sources
           /\ (call.op = call'.op /\ call.who = call'.who
                  /\ call.vec = call'.vec) => call'.ret = call.ret]_vars

\* C10 witness: the collection, holding at least two members, was queried
\* as the second call of the run.
C10_Witness ==
    /\ call.op = "Collection.getB"
    /\ Len(sources) >= 2
    /\ steps >= 2

====
